---------------------------- MODULE Spec2Model ----------------------------
(***************************************************************************)
(* state-anchor: the daily fact bank (src/canada_fact_bank.py) and the     *)
(* daily mailer (src/baseline_mailer.py) as state machines.                *)
(*                                                                         *)
(* Text is abstracted: a category is a short key for the string of the     *)
(* same position in CATEGORIES, a fact's prose is a token naming the fact, *)
(* and an indicator value is an integer number of tenths (81.6 -> 816).    *)
(***************************************************************************)
EXTENDS Integers, Sequences, FiniteSets, TLC

VARIABLES
    day_of_year,    \* the day the pack is built for
    focus,          \* the arguments of the build: categories, label, tags
    pc,             \* position of the build: start, args, loop, returned, raised, rendered
    blueprints,     \* _select_blueprints' result, as build_daily_fact_pack holds it
    resolved,       \* build_daily_fact_pack's list of resolved facts so far
    lookup,         \* outcome of the latest World Bank lookup: none, ok, or the exception
    fetch_log,      \* indicators fetched so far, one entry per urlopen call
    rendered,       \* render_focus_and_evidence's text, once rendered
    net_log,        \* the responses this build was given, where they are recorded
    first_run,      \* the pack and text of an earlier build of the same day, or <<>>
    target_arg,     \* the target_count argument of the selection
    store,          \* the module's tables as the interpreter holds them
    rotate_arg      \* the list given to the latest _rotate call, before and after

bank_vars == <<day_of_year, focus, pc, blueprints, resolved, lookup, fetch_log,
               rendered, net_log, first_run, target_arg, store, rotate_arg>>

VARIABLES
    mpc,            \* main's position: the index in main_calls of the next call
    env_missing,    \* the required environment variables that are not set
    port_valid,     \* whether EMAIL_SMTP_PORT, when set, parses as an integer
    prompt_file,    \* whether prompt.txt can be read
    trace,          \* what the run has done so far, in order
    error,          \* the exception that ended the run, or "none"
    model_output,   \* the paragraphs of the model's answer, as word counts
    reflection,     \* generate_reflection's result
    today,          \* the day of the year of the run (tm_yday of utcnow)
    prompt          \* load_prompt's result, or <<>>

mail_vars == <<mpc, env_missing, port_valid, prompt_file, trace, error,
               model_output, reflection, today, prompt>>

VARIABLES
    http_response,  \* what urlopen + json.load give for one lookup
    fetch_result,   \* _fetch_world_bank_latest's outcome on it, or <<>>
    metric_result   \* _resolve_metric_fact's outcome on it, or <<>>

fetch_vars == <<http_response, fetch_result, metric_result>>

VARIABLES
    text,           \* a reflection: blocks of lines of characters
    html            \* reflection_to_html's output for it, or <<>>

html_vars == <<text, html>>

vars == <<bank_vars, mail_vars, fetch_vars, html_vars>>

other_than_bank == <<mail_vars, fetch_vars, html_vars>>

other_than_mail == <<bank_vars, fetch_vars, html_vars>>

(***************************************************************************)
(* Bounds of the model                                                     *)
(***************************************************************************)
NegDays == 5

MaxDay == 366

OtherArgDays == 24

TwinLastDay == 25

TwinSpan == 15

MaxParagraphs == 3

MaxMissing == 1

(***************************************************************************)
(* Static tables of canada_fact_bank.py                                    *)
(***************************************************************************)

CATEGORIES ==
    << "legal_institutional",
       "currency_capital",
       "labour_mobility",
       "information_access",
       "infrastructure_time",
       "second_chances",
       "state_capacity",
       "language_geographic",
       "language_global",
       "education",
       "healthcare",
       "political_stability",
       "banking_inclusion",
       "research_libraries",
       "labour_standards",
       "property_rights",
       "immigration",
       "press_freedom",
       "internal_mobility",
       "pension",
       "clean_water",
       "consumer_safety",
       "environment" >>

COMPARISON_PROFILES ==
    << [label |-> "profile_low_trust",
        tags |-> <<"low_trust", "rule_of_law", "corruption", "zimbabwe">>],
       [label |-> "profile_language_trap",
        tags |-> <<"language_trap", "mobility", "hukou">>],
       [label |-> "profile_second_chance",
        tags |-> <<"second_chance", "debt", "income_shock">>],
       [label |-> "profile_citizenship",
        tags |-> <<"citizenship", "family", "temporary_status">>],
       [label |-> "profile_us_risk",
        tags |-> <<"us_risk", "medical_debt", "income_shock">>],
       [label |-> "profile_inflation",
        tags |-> <<"inflation", "currency", "macrostability">>],
       [label |-> "profile_press_freedom",
        tags |-> <<"press_freedom", "civil_liberties", "information_access">>] >>

POLICY_FACTS ==
    << [id |-> "F001", category |-> "internal_mobility",
        tags |-> <<"mobility", "legal", "hukou", "language_trap">>,
        canada_fact |-> "canada_fact_F001", contrast |-> "contrast_F001",
        as_of |-> "Current law / World Bank 2024"],
       [id |-> "F002", category |-> "healthcare",
        tags |-> <<"healthcare", "us_risk", "medical_debt">>,
        canada_fact |-> "canada_fact_F002", contrast |-> "contrast_F002",
        as_of |-> "Current framework / 2023 survey"],
       [id |-> "F003", category |-> "currency_capital",
        tags |-> <<"currency", "banking", "low_trust", "macrostability">>,
        canada_fact |-> "canada_fact_F003", contrast |-> "contrast_F003",
        as_of |-> "Current"],
       [id |-> "F004", category |-> "currency_capital",
        tags |-> <<"currency", "inflation", "state_capacity", "macrostability">>,
        canada_fact |-> "canada_fact_F004", contrast |-> "contrast_F004",
        as_of |-> "Renewed through end-2026"],
       [id |-> "F005", category |-> "immigration",
        tags |-> <<"citizenship", "mobility", "temporary_status">>,
        canada_fact |-> "canada_fact_F005", contrast |-> "contrast_F005",
        as_of |-> "Current"],
       [id |-> "F006", category |-> "immigration",
        tags |-> <<"family", "citizenship", "temporary_status">>,
        canada_fact |-> "canada_fact_F006", contrast |-> "contrast_F006",
        as_of |-> "Current"],
       [id |-> "F007", category |-> "language_global",
        tags |-> <<"language", "language_trap", "mobility">>,
        canada_fact |-> "canada_fact_F007", contrast |-> "contrast_F007",
        as_of |-> "Current"],
       [id |-> "F008", category |-> "second_chances",
        tags |-> <<"second_chance", "income_shock", "state_capacity">>,
        canada_fact |-> "canada_fact_F008", contrast |-> "contrast_F008",
        as_of |-> "Current"],
       [id |-> "F009", category |-> "pension",
        tags |-> <<"pension", "state_capacity", "income_shock">>,
        canada_fact |-> "canada_fact_F009", contrast |-> "contrast_F009",
        as_of |-> "Current"],
       [id |-> "F010", category |-> "second_chances",
        tags |-> <<"second_chance", "debt", "legal">>,
        canada_fact |-> "canada_fact_F010", contrast |-> "contrast_F010",
        as_of |-> "Current"],
       [id |-> "F011", category |-> "press_freedom",
        tags |-> <<"civil_liberties", "press_freedom", "zimbabwe", "low_trust">>,
        canada_fact |-> "canada_fact_F011", contrast |-> "contrast_F011",
        as_of |-> "2025"],
       [id |-> "F012", category |-> "property_rights",
        tags |-> <<"rule_of_law", "legal", "low_trust">>,
        canada_fact |-> "canada_fact_F012", contrast |-> "contrast_F012",
        as_of |-> "2024"],
       [id |-> "F013", category |-> "press_freedom",
        tags |-> <<"press_freedom", "information_access">>,
        canada_fact |-> "canada_fact_F013", contrast |-> "contrast_F013",
        as_of |-> "2024"],
       [id |-> "F014", category |-> "legal_institutional",
        tags |-> <<"corruption", "low_trust", "rule_of_law">>,
        canada_fact |-> "canada_fact_F014", contrast |-> "contrast_F014",
        as_of |-> "2024"],
       [id |-> "F015", category |-> "political_stability",
        tags |-> <<"stability", "state_capacity">>,
        canada_fact |-> "canada_fact_F015", contrast |-> "contrast_F015",
        as_of |-> "2024"] >>

METRIC_FACTS ==
    << [id |-> "F101", category |-> "healthcare",
        tags |-> <<"healthcare", "us_risk">>,
        indicator |-> "SP.DYN.LE00.IN", comparison_country |-> "US",
        higher_is_better |-> TRUE,
        fallback |-> [CA |-> <<"2023", 816>>, US |-> <<"2023", 784>>]],
       [id |-> "F102", category |-> "political_stability",
        tags |-> <<"stability", "us_risk", "public_safety">>,
        indicator |-> "VC.IHR.PSRC.P5", comparison_country |-> "US",
        higher_is_better |-> FALSE,
        fallback |-> [CA |-> <<"2023", 20>>, US |-> <<"2023", 58>>]],
       [id |-> "F103", category |-> "clean_water",
        tags |-> <<"infrastructure", "water", "zimbabwe", "low_trust">>,
        indicator |-> "SH.H2O.SMDW.ZS", comparison_country |-> "ZW",
        higher_is_better |-> TRUE,
        fallback |-> [CA |-> <<"2024", 969>>, ZW |-> <<"2024", 255>>]],
       [id |-> "F104", category |-> "clean_water",
        tags |-> <<"infrastructure", "sanitation", "zimbabwe", "low_trust">>,
        indicator |-> "SH.STA.SMSS.ZS", comparison_country |-> "ZW",
        higher_is_better |-> TRUE,
        fallback |-> [CA |-> <<"2024", 813>>, ZW |-> <<"2024", 236>>]],
       [id |-> "F105", category |-> "infrastructure_time",
        tags |-> <<"infrastructure", "electricity", "zimbabwe", "state_capacity">>,
        indicator |-> "EG.ELC.ACCS.ZS", comparison_country |-> "ZW",
        higher_is_better |-> TRUE,
        fallback |-> [CA |-> <<"2023", 1000>>, ZW |-> <<"2023", 620>>]],
       [id |-> "F106", category |-> "information_access",
        tags |-> <<"information_access", "infrastructure", "zimbabwe">>,
        indicator |-> "IT.NET.USER.ZS", comparison_country |-> "ZW",
        higher_is_better |-> TRUE,
        fallback |-> [CA |-> <<"2023", 940>>, ZW |-> <<"2023", 384>>]],
       [id |-> "F107", category |-> "banking_inclusion",
        tags |-> <<"banking", "financial_inclusion", "zimbabwe", "low_trust">>,
        indicator |-> "FX.OWN.TOTL.ZS", comparison_country |-> "ZW",
        higher_is_better |-> TRUE,
        fallback |-> [CA |-> <<"2024", 984>>, ZW |-> <<"2024", 495>>]],
       [id |-> "F108", category |-> "currency_capital",
        tags |-> <<"inflation", "currency", "macrostability">>,
        indicator |-> "FP.CPI.TOTL.ZG", comparison_country |-> "AR",
        higher_is_better |-> FALSE,
        fallback |-> [CA |-> <<"2024", 24>>, AR |-> <<"2024", 2199>>]],
       [id |-> "F109", category |-> "state_capacity",
        tags |-> <<"state_capacity", "us_risk", "inequality">>,
        indicator |-> "SI.POV.GINI", comparison_country |-> "US",
        higher_is_better |-> FALSE,
        fallback |-> [CA |-> <<"2021", 311>>, US |-> <<"2023", 418>>]] >>

\* The module's tables once canada_fact_bank is imported.
ModuleTables ==
    [CATEGORIES          |-> CATEGORIES,
     COMPARISON_PROFILES |-> COMPARISON_PROFILES,
     POLICY_FACTS        |-> POLICY_FACTS,
     METRIC_FACTS        |-> METRIC_FACTS]

\* _select_blueprints, line 502: the bank is read from the module's lists.
ALL_FACTS == store.POLICY_FACTS \o store.METRIC_FACTS

\* Line 502 written as "all_facts = POLICY_FACTS; all_facts += METRIC_FACTS",
\* which extends the module's list in place.
store_after_all_facts_aliased(st) ==
    [st EXCEPT !.POLICY_FACTS = st.POLICY_FACTS \o st.METRIC_FACTS]

\* What line 502 does to the tables: list(POLICY_FACTS) + list(METRIC_FACTS)
\* copies both lists and builds a third, so the tables stay as they are.
store_after_all_facts(st) == st

Range(s) == { s[x] : x \in DOMAIN s }

(***************************************************************************)
(* _rotate(items, seed)                                                    *)
(***************************************************************************)
rotate(items, seed) ==
    IF items = <<>>
    THEN <<>>
    ELSE LET idx == seed % Len(items)
         IN  SubSeq(items, idx + 1, Len(items)) \o SubSeq(items, 1, idx)

\* A _rotate that moves the elements inside the list it is given.
rotate_argument_after_in_place(items, seed) == rotate(items, seed)

\* The list given to _rotate, once _rotate has returned: line 471 takes two
\* slices and concatenates them, each a new list.
rotate_argument_after(items, seed) == items

(***************************************************************************)
(* choose_daily_focus(day_of_year).  Python lists are 0-based, hence the   *)
(* +1 at every index into a table.                                         *)
(***************************************************************************)
\* focus_indices with the third offset equal to the second.
focus_indices_same_offset(d) ==
    LET n_cat == Len(CATEGORIES)
        i     == d % n_cat
        j0    == (d + 7) % n_cat
        k0    == (d + 7) % n_cat
        j     == IF j0 \in {i} THEN (j0 + 1) % n_cat ELSE j0
        seen  == {i, j}
        k1    == IF k0 \in seen THEN (k0 + 1) % n_cat ELSE k0
        k     == IF k0 \in seen /\ k1 \in seen THEN (k1 + 1) % n_cat ELSE k1
    IN  <<i, j, k>>

focus_indices(d) ==
    LET n_cat == Len(CATEGORIES)
        i     == d % n_cat
        j0    == (d + 7) % n_cat
        k0    == (d + 14) % n_cat
        j     == IF j0 \in {i} THEN (j0 + 1) % n_cat ELSE j0
        seen  == {i, j}
        k1    == IF k0 \in seen THEN (k0 + 1) % n_cat ELSE k0
        k     == IF k0 \in seen /\ k1 \in seen THEN (k1 + 1) % n_cat ELSE k1
    IN  <<i, j, k>>

choose_daily_focus(d) ==
    LET ijk     == focus_indices(d)
        profile == COMPARISON_PROFILES[(d % Len(COMPARISON_PROFILES)) + 1]
    IN  [categories       |-> << CATEGORIES[ijk[1] + 1],
                                 CATEGORIES[ijk[2] + 1],
                                 CATEGORIES[ijk[3] + 1] >>,
         comparison_label |-> profile.label,
         comparison_tags  |-> profile.tags]

(***************************************************************************)
(* _select_blueprints and its inner add_from_pool.  sel is the pair of     *)
(* closure variables (selected, selected_ids).                             *)
(***************************************************************************)
\* add_loop without the "already selected" test of add_from_pool.
RECURSIVE add_loop_no_dedupe(_, _, _)
add_loop_no_dedupe(sel, facts, desired) ==
    IF facts = <<>>
    THEN sel
    ELSE LET nxt == [selected     |-> Append(sel.selected, Head(facts)),
                     selected_ids |-> sel.selected_ids \cup {Head(facts).id}]
         IN  IF Len(nxt.selected) >= desired
             THEN nxt
             ELSE add_loop_no_dedupe(nxt, Tail(facts), desired)

RECURSIVE add_loop(_, _, _)
add_loop(sel, facts, desired) ==
    IF facts = <<>>
    THEN sel
    ELSE LET fact == Head(facts)
         IN  IF fact.id \in sel.selected_ids
             THEN add_loop(sel, Tail(facts), desired)
             ELSE LET nxt == [selected     |-> Append(sel.selected, fact),
                              selected_ids |-> sel.selected_ids \cup {fact.id}]
                  IN  IF Len(nxt.selected) >= desired
                      THEN nxt
                      ELSE add_loop(nxt, Tail(facts), desired)

add_from_pool(sel, pool, desired, seed) ==
    add_loop(sel, rotate(pool, seed), desired)

by_category(focus_categories) ==
    LET focus_set == Range(focus_categories)
        InFocus(f) == f.category \in focus_set
    IN  SelectSeq(ALL_FACTS, InFocus)

by_comparison(comparison_tags) ==
    LET comparison_set == Range(comparison_tags)
        Shares(f) == (comparison_set \cap Range(f.tags)) # {}
    IN  SelectSeq(ALL_FACTS, Shares)

CoreFromFocus == 4

CoreTotal == 7

SeedComparison == 5

SeedFill == 11

\* after_category with selected_ids kept from the previous build instead of
\* starting empty in every call.
after_category_keeps_ids(day, focus_categories) ==
    add_from_pool([selected     |-> <<>>,
                   selected_ids |-> IF Len(first_run) = 1
                                    THEN { first_run[1].pack[x].fact_id :
                                              x \in DOMAIN first_run[1].pack }
                                    ELSE {}],
                  by_category(focus_categories), CoreFromFocus, day)

after_category(day, focus_categories) ==
    add_from_pool([selected |-> <<>>, selected_ids |-> {}],
                  by_category(focus_categories), CoreFromFocus, day)

after_comparison(day, focus_categories, comparison_tags) ==
    add_from_pool(after_category(day, focus_categories),
                  by_comparison(comparison_tags), CoreTotal, day + SeedComparison)

select_blueprints(day, focus_categories, comparison_tags, target_count) ==
    add_from_pool(after_comparison(day, focus_categories, comparison_tags),
                  ALL_FACTS, target_count, day + SeedFill).selected


(***************************************************************************)
(* World Bank responses.  A response is what urlopen + json.load give:     *)
(* an exception, or a decoded JSON payload.  JSON values are tagged with   *)
(* their Python type (t); a row's value is <<>> for null and <<n>> for the *)
(* number n (in tenths).                                                   *)
(***************************************************************************)
JNull == [t |-> "null"]

JDict == [t |-> "dict"]

JList(v) == [t |-> "list", v |-> v]

Row(code, date, value) ==
    [t |-> "dict", country |-> [t |-> "dict", id |-> code],
     date |-> date, value |-> value]

RowCountryNull(date, value) ==
    [t |-> "dict", country |-> JNull, date |-> date, value |-> value]

Raise(exc) == [ok |-> FALSE, exc |-> exc]

Return(v) == [ok |-> TRUE, value |-> v]

(***************************************************************************)
(* The row loop of _fetch_world_bank_latest: row.get on a row that is not  *)
(* an object, or .get("id") on a country that is not one, raises           *)
(* AttributeError; the first non-null row of a needed country wins.        *)
(***************************************************************************)
RECURSIVE fetch_rows(_, _, _)
fetch_rows(rows, needed, latest) ==
    IF rows = <<>>
    THEN Return(latest)
    ELSE LET row == Head(rows)
         IN  IF row.t # "dict" \/ row.country.t # "dict"
             THEN Raise("AttributeError")
             ELSE LET code  == row.country.id
                      value == row.value
                      year  == row.date
                      upd   == IF code \in needed /\ value # <<>>
                                  /\ code \notin DOMAIN latest
                               THEN latest @@ (code :> <<year, value[1]>>)
                               ELSE latest
                  IN  IF Cardinality(DOMAIN upd) = Cardinality(needed)
                      THEN Return(upd)
                      ELSE fetch_rows(Tail(rows), needed, upd)

\* _fetch_world_bank_latest without the check of lines 560-562.
fetch_world_bank_latest_partial(response, countries) ==
    IF response.kind # "payload"
    THEN Raise(response.kind)
    ELSE LET payload == response.payload
         IN  IF payload.t # "list" \/ Len(payload.v) < 2 \/ payload.v[2].t # "list"
             THEN Raise("ValueError")
             ELSE fetch_rows(payload.v[2].v, Range(countries), <<>>)

fetch_world_bank_latest(response, countries) ==
    IF response.kind # "payload"
    THEN Raise(response.kind)
    ELSE LET payload == response.payload
         IN  IF payload.t # "list" \/ Len(payload.v) < 2 \/ payload.v[2].t # "list"
             THEN Raise("ValueError")
             ELSE LET needed == Range(countries)
                      got    == fetch_rows(payload.v[2].v, needed, <<>>)
                  IN  IF ~got.ok
                      THEN got
                      ELSE IF needed \ DOMAIN got.value # {}
                           THEN Raise("ValueError")
                           ELSE got

(***************************************************************************)
(* _resolve_metric_fact: one fetch inside try/except, then get_point for   *)
(* both countries.  The except clause names URLError, ValueError and       *)
(* TimeoutError; any other exception leaves the function.                  *)
(***************************************************************************)
CaughtByResolve == {"URLError", "ValueError", "TimeoutError"}

\* A get_point that reads Canada's value from the fallback pair at all times.
get_point_canada_from_fallback(latest, fallback, country_code) ==
    IF country_code \in DOMAIN latest /\ country_code # "CA"
    THEN Return(latest[country_code])
    ELSE IF country_code \in DOMAIN fallback
         THEN Return(fallback[country_code])
         ELSE Raise("ValueError")

get_point(latest, fallback, country_code) ==
    IF country_code \in DOMAIN latest
    THEN Return(latest[country_code])
    ELSE IF country_code \in DOMAIN fallback
         THEN Return(fallback[country_code])
         ELSE Raise("ValueError")

resolve_metric_fact(template, response) ==
    LET comparison_country == template.comparison_country
        countries == <<"CA", comparison_country>>
        fetched   == fetch_world_bank_latest(response, countries)
    IN  IF ~fetched.ok /\ fetched.exc \notin CaughtByResolve
        THEN fetched
        ELSE LET latest == IF fetched.ok THEN fetched.value ELSE <<>>
                 ca     == get_point(latest, template.fallback, "CA")
                 cmp    == get_point(latest, template.fallback, comparison_country)
             IN  IF ~ca.ok THEN ca
                 ELSE IF ~cmp.ok THEN cmp
                 ELSE Return(
                     [fact_id     |-> template.id,
                      category    |-> template.category,
                      tags        |-> template.tags,
                      canada_fact |-> [canada |-> ca.value, versus |-> cmp.value,
                                       country |-> comparison_country],
                      contrast    |-> IF template.higher_is_better
                                      THEN "canada_is_higher" ELSE "canada_is_lower",
                      as_of       |-> <<ca.value[1], cmp.value[1]>>])

resolve_policy_fact(item) ==
    [fact_id     |-> item.id,
     category    |-> item.category,
     tags        |-> item.tags,
     canada_fact |-> item.canada_fact,
     contrast    |-> item.contrast,
     as_of       |-> item.as_of]

(***************************************************************************)
(* render_focus_and_evidence: the text as its sequence of lines, each line *)
(* as the tuple of the values interpolated into it.                        *)
(***************************************************************************)
RECURSIVE fact_lines(_)
fact_lines(pack) ==
    IF pack = <<>>
    THEN <<>>
    ELSE LET fact == Head(pack)
         IN  << <<"id_category", fact.fact_id, fact.category>>,
                <<"canada_advantage", fact.canada_fact>>,
                <<"contrast_context", fact.contrast>>,
                <<"as_of", fact.as_of>> >> \o fact_lines(Tail(pack))

render_focus_and_evidence(categories, label, pack) ==
    << <<"focus_categories", categories[1], categories[2], categories[3]>>,
       <<"contrast_emphasis", label>> >> \o fact_lines(pack) \o << <<"rules">> >>


(***************************************************************************)
(* The responses the World Bank lookup of a template is checked against.   *)
(* A live payload lists the rows newest first, with a null row, a row of   *)
(* another country and an older row per country, as the API does.          *)
(***************************************************************************)
Failed(exc) == [kind |-> exc, payload |-> JNull]

Payload(p) == [kind |-> "payload", payload |-> p]

LivePayload(template, year) ==
    LET cc == template.comparison_country
    IN  JList(<< JDict,
                 JList(<< Row(cc, year, <<>>),
                          Row("CA", year, <<template.fallback["CA"][2] + 1>>),
                          Row("MX", year, <<7>>),
                          Row(cc, "2020", <<template.fallback[cc][2] + 1>>),
                          Row("CA", "2020", <<1>>) >>) >>)

IncompletePayload(template) ==
    JList(<< JDict,
             JList(<< Row("CA", "2025", <<template.fallback["CA"][2] + 1>>),
                      Row(template.comparison_country, "2025", <<>>) >>) >>)

FailingResponses(template) ==
    { Failed("URLError"),
      Failed("TimeoutError"),
      Failed("ValueError"),                          \* json.load: JSONDecodeError
      Payload(JDict),                                \* not a list
      Payload(JList(<<JDict>>)),                     \* [{"message": ...}]
      Payload(JList(<<JDict, JNull>>)),              \* second element null
      Payload(IncompletePayload(template)),
      Payload(JList(<<JDict, JList(<<JNull>>)>>)),   \* a row that is no object
      Payload(JList(<<JDict, JList(<<RowCountryNull("2025", <<5>>)>>)>>)) }

Responses(template) ==
    FailingResponses(template) \cup { Payload(LivePayload(template, "2025")) }

\* For two builds of one day: a failure and two live responses that differ.
TwinResponses(template) ==
    { Failed("URLError"),
      Payload(LivePayload(template, "2025")),
      Payload(LivePayload(template, "2026")) }

lookup_outcome(template, response) ==
    LET got == fetch_world_bank_latest(response,
                                       <<"CA", template.comparison_country>>)
    IN  IF got.ok THEN "ok" ELSE got.exc

(***************************************************************************)
(* The calls of _fetch_world_bank_latest that one _resolve_metric_fact     *)
(* makes: the single call inside the try block.                            *)
(***************************************************************************)
\* metric_fetches of a resolver that tries once more after a failed lookup.
metric_fetches_retry(template, response) ==
    IF fetch_world_bank_latest(response, <<"CA", template.comparison_country>>).ok
    THEN <<template.indicator>>
    ELSE <<template.indicator, template.indicator>>

metric_fetches(template, response) == <<template.indicator>>

(***************************************************************************)
(* The build as a state machine                                            *)
(***************************************************************************)
Days == (0 - NegDays) .. MaxDay

\* build_daily_fact_pack, line 650: it asks for target_count = 9.
PackTarget == 9

MailIdle ==
    /\ mpc = 0
    /\ env_missing = {}
    /\ port_valid = TRUE
    /\ prompt_file = TRUE
    /\ trace = <<>>
    /\ error = "none"
    /\ model_output = <<>>
    /\ reflection = <<>>
    /\ today = 0
    /\ prompt = <<>>

FetchIdle ==
    /\ http_response = <<>>
    /\ fetch_result = <<>>
    /\ metric_result = <<>>

HtmlIdle ==
    /\ text = <<>>
    /\ html = <<>>

NoRotate == [before |-> <<>>, after |-> <<>>]

NoFocus == [categories |-> <<>>, comparison_label |-> "", comparison_tags |-> <<>>]

Init ==
    /\ day_of_year \in Days
    /\ focus = NoFocus
    /\ pc = "start"
    /\ blueprints = <<>>
    /\ resolved = <<>>
    /\ lookup = "none"
    /\ fetch_log = <<>>
    /\ rendered = <<>>
    /\ net_log = <<>>
    /\ first_run = <<>>
    /\ target_arg = PackTarget
    /\ store = ModuleTables
    /\ rotate_arg = NoRotate
    /\ MailIdle
    /\ FetchIdle
    /\ HtmlIdle

\* The caller takes the arguments of the build from choose_daily_focus.
ChooseDailyFocus ==
    /\ pc = "start"
    /\ focus' = choose_daily_focus(day_of_year)
    /\ pc' = "args"
    /\ UNCHANGED <<day_of_year, blueprints, resolved, lookup, fetch_log,
                   rendered, net_log, first_run>>
    /\ UNCHANGED <<target_arg, store, rotate_arg>>
    /\ UNCHANGED other_than_bank

\* A caller that passes other focus categories and comparison tags.
OtherFocus ==
    { <<>>, CATEGORIES, <<"currency_capital">>,
      <<"not_a_category", "healthcare", "healthcare">> }

OtherTags ==
    { <<>>, <<"unknown_tag">>,
      <<"low_trust", "state_capacity", "zimbabwe", "us_risk">> }

ChooseOtherArgs ==
    /\ pc = "start"
    /\ day_of_year \in 0 .. OtherArgDays
    /\ \E c \in OtherFocus, t \in OtherTags :
          focus' = [categories |-> c, comparison_label |-> "other",
                    comparison_tags |-> t]
    /\ pc' = "args"
    /\ UNCHANGED <<day_of_year, blueprints, resolved, lookup, fetch_log,
                   rendered, net_log, first_run>>
    /\ UNCHANGED <<target_arg, store, rotate_arg>>
    /\ UNCHANGED other_than_bank

SelectBlueprints ==
    /\ pc = "args"
    /\ blueprints' = select_blueprints(day_of_year, focus.categories,
                                       focus.comparison_tags, target_arg)
    /\ store' = store_after_all_facts(store)
    /\ rotate_arg' =
          LET after == rotate_argument_after(ALL_FACTS, day_of_year + SeedFill)
          IN  [before |-> [x \in DOMAIN ALL_FACTS |-> ALL_FACTS[x].id],
               after  |-> [x \in DOMAIN after |-> after[x].id]]
    /\ resolved' = <<>>
    /\ pc' = "loop"
    /\ UNCHANGED <<day_of_year, focus, lookup, fetch_log, rendered, net_log,
                   first_run, target_arg>>
    /\ UNCHANGED other_than_bank

item == blueprints[Len(resolved) + 1]

\* One iteration of the loop on a policy fact.
ResolvePolicy ==
    /\ pc = "loop"
    /\ Len(resolved) < Len(blueprints)
    /\ "indicator" \notin DOMAIN item
    /\ resolved' = Append(resolved, resolve_policy_fact(item))
    /\ lookup' = "none"
    /\ UNCHANGED <<day_of_year, focus, pc, blueprints, fetch_log, rendered,
                   net_log, first_run>>
    /\ UNCHANGED <<target_arg, store, rotate_arg>>
    /\ UNCHANGED other_than_bank

\* One iteration on a metric fact: _resolve_metric_fact with the response
\* the network gives; an exception it does not catch ends the build.  With
\* twin, the response is one of TwinResponses and is recorded in net_log.
ResolveMetric(twin) ==
    /\ pc = "loop"
    /\ Len(resolved) < Len(blueprints)
    /\ "indicator" \in DOMAIN item
    /\ \E response \in (IF twin THEN TwinResponses(item) ELSE Responses(item)) :
          LET r == resolve_metric_fact(item, response)
          IN  /\ fetch_log' = fetch_log \o metric_fetches(item, response)
              /\ net_log' = IF twin THEN Append(net_log, response) ELSE net_log
              /\ lookup' = lookup_outcome(item, response)
              /\ IF r.ok
                 THEN /\ resolved' = Append(resolved, r.value)
                      /\ pc' = "loop"
                 ELSE /\ resolved' = resolved
                      /\ pc' = "raised"
    /\ UNCHANGED <<day_of_year, focus, blueprints, rendered, first_run>>
    /\ UNCHANGED <<target_arg, store, rotate_arg>>
    /\ UNCHANGED other_than_bank

ReturnPack ==
    /\ pc = "loop"
    /\ Len(resolved) = Len(blueprints)
    /\ pc' = "returned"
    /\ UNCHANGED <<day_of_year, focus, blueprints, resolved, lookup, fetch_log,
                   rendered, net_log, first_run>>
    /\ UNCHANGED <<target_arg, store, rotate_arg>>
    /\ UNCHANGED other_than_bank

\* render_focus_and_evidence reads focus_categories[0..2].
Render ==
    /\ pc = "returned"
    /\ Len(focus.categories) >= 3
    /\ rendered' = render_focus_and_evidence(focus.categories,
                                             focus.comparison_label, resolved)
    /\ pc' = "rendered"
    /\ UNCHANGED <<day_of_year, focus, blueprints, resolved, lookup, fetch_log,
                   net_log, first_run>>
    /\ UNCHANGED <<target_arg, store, rotate_arg>>
    /\ UNCHANGED other_than_bank

Next ==
    \/ ChooseDailyFocus
    \/ ChooseOtherArgs
    \/ SelectBlueprints
    \/ ResolvePolicy
    \/ ResolveMetric(FALSE)
    \/ ReturnPack
    \/ Render

Spec == Init /\ [][Next]_vars


(***************************************************************************)
(* Two builds of the same day, one after the other, each with its own      *)
(* network outcomes.  The first build's focus, pack, text and responses    *)
(* are kept for comparison.  The days are those of a window in which the   *)
(* packs hold few metric facts, which keeps the pairs of builds countable. *)
(***************************************************************************)
TwinDays == (TwinLastDay - TwinSpan) .. TwinLastDay

TwinInit ==
    /\ day_of_year \in TwinDays
    /\ focus = NoFocus
    /\ pc = "start"
    /\ blueprints = <<>>
    /\ resolved = <<>>
    /\ lookup = "none"
    /\ fetch_log = <<>>
    /\ rendered = <<>>
    /\ net_log = <<>>
    /\ first_run = <<>>
    /\ target_arg = PackTarget
    /\ store = ModuleTables
    /\ rotate_arg = NoRotate
    /\ MailIdle
    /\ FetchIdle
    /\ HtmlIdle

Rerun ==
    /\ pc = "rendered"
    /\ Len(first_run) = 0
    /\ first_run' = << [focus |-> focus, pack |-> resolved, text |-> rendered,
                        net_log |-> net_log] >>
    /\ focus' = NoFocus
    /\ pc' = "start"
    /\ blueprints' = <<>>
    /\ resolved' = <<>>
    /\ lookup' = "none"
    /\ fetch_log' = <<>>
    /\ rendered' = <<>>
    /\ net_log' = <<>>
    /\ UNCHANGED day_of_year
    /\ UNCHANGED <<target_arg, store, rotate_arg>>
    /\ UNCHANGED other_than_bank

TwinNext ==
    \/ ChooseDailyFocus
    \/ SelectBlueprints
    \/ ResolvePolicy
    \/ ResolveMetric(TRUE)
    \/ ReturnPack
    \/ Render
    \/ Rerun

SpecTwin == TwinInit /\ [][TwinNext]_vars

(***************************************************************************)
(* _select_blueprints called on its own, with any target_count from 0 to   *)
(* the size of the bank.                                                   *)
(***************************************************************************)
MaxTarget == 24

SelectInit ==
    /\ day_of_year \in Days
    /\ focus = NoFocus
    /\ pc = "start"
    /\ blueprints = <<>>
    /\ resolved = <<>>
    /\ lookup = "none"
    /\ fetch_log = <<>>
    /\ rendered = <<>>
    /\ net_log = <<>>
    /\ first_run = <<>>
    /\ target_arg \in 0 .. MaxTarget
    /\ store = ModuleTables
    /\ rotate_arg = NoRotate
    /\ MailIdle
    /\ FetchIdle
    /\ HtmlIdle

SelectNext ==
    \/ ChooseDailyFocus
    \/ ChooseOtherArgs
    \/ SelectBlueprints

SpecSelect == SelectInit /\ [][SelectNext]_vars

(***************************************************************************)
(* Properties of the build                                                 *)
(***************************************************************************)
Ids(facts) == [x \in DOMAIN facts |-> facts[x].id]

FactIds(pack) == [x \in DOMAIN pack |-> pack[x].fact_id]

Injective(seq) == \A x, y \in DOMAIN seq : x # y => seq[x] # seq[y]

IsMetric(fact) == "indicator" \in DOMAIN fact

Selected == pc \in {"loop", "returned", "raised", "rendered"}

Returned == pc \in {"returned", "rendered"}

FromDailyFocus == pc # "start" /\ focus.comparison_label # "other"

\* C1: for every day and every focus/tags argument the selection with
\* target_count = 9 has exactly 9 blueprints with pairwise distinct ids, and
\* the pack build_daily_fact_pack returns has exactly 9 facts with pairwise
\* distinct fact ids.
C1_PackHasNineDistinctFacts ==
    /\ Selected => Len(blueprints) = 9 /\ Injective(Ids(blueprints))
    /\ Returned => Len(resolved) = 9 /\ Injective(FactIds(resolved))

C1_Witness ==
    /\ pc = "returned"
    /\ focus.categories = CATEGORIES
    /\ focus.comparison_tags = <<>>
    /\ Len(resolved) = 9

\* C2 (as claimed): with the day's own focus, positions 1-4 of the selection
\* are facts of the focus categories and positions 5-7 are facts sharing a tag
\* with the day's comparison tags.
C2_CoreIsFourFocusThenThreeComparison ==
    (Selected /\ FromDailyFocus) =>
        /\ \A x \in 1 .. 4 :
              blueprints[x].category \in Range(focus.categories)
        /\ \A x \in 5 .. 7 :
              Range(blueprints[x].tags) \cap Range(focus.comparison_tags) # {}

\* C3: choose_daily_focus(d) gives the three pairwise distinct categories
\* CATEGORIES[d mod 23], CATEGORIES[(d+7) mod 23], CATEGORIES[(d+14) mod 23]
\* and the label and tags of COMPARISON_PROFILES[d mod 7].
C3_FocusIsThreeDistinctCategoriesAndOneProfile ==
    FromDailyFocus =>
        /\ focus.categories = << CATEGORIES[(day_of_year % 23) + 1],
                                 CATEGORIES[((day_of_year + 7) % 23) + 1],
                                 CATEGORIES[((day_of_year + 14) % 23) + 1] >>
        /\ Len(focus.categories) = 3
        /\ Injective(focus.categories)
        /\ Range(focus.categories) \subseteq Range(CATEGORIES)
        /\ focus.comparison_label = COMPARISON_PROFILES[(day_of_year % 7) + 1].label
        /\ focus.comparison_tags = COMPARISON_PROFILES[(day_of_year % 7) + 1].tags

C3_Witness ==
    /\ pc = "args"
    /\ focus.comparison_label # "other"
    /\ day_of_year = 366
    /\ focus.categories[1] = CATEGORIES[22]

\* The fact _resolve_metric_fact builds from the template's fallback pair.
FallbackPoints(template) ==
    [canada  |-> template.fallback["CA"],
     versus  |-> template.fallback[template.comparison_country],
     country |-> template.comparison_country]

LookupFailed == lookup \notin {"none", "ok"}

\* C5 (as claimed): whenever the lookup for a metric fact fails, the resolver
\* does not raise, the fact is built from the template's fallback pair for both
\* countries, and the build still returns the full pack.
C5_FailedLookupFallsBack ==
    /\ LookupFailed =>
          /\ pc # "raised"
          /\ resolved # <<>>
          /\ resolved[Len(resolved)].canada_fact
                = FallbackPoints(blueprints[Len(resolved)])
    /\ Returned => Len(resolved) = Len(blueprints)

\* The indicators of the metric facts among the first n blueprints, in order.
RECURSIVE MetricIndicators(_, _)
MetricIndicators(facts, n) ==
    IF n = 0
    THEN <<>>
    ELSE MetricIndicators(facts, n - 1)
            \o (IF IsMetric(facts[n]) THEN <<facts[n].indicator>> ELSE <<>>)

Processed == Len(resolved) + (IF pc = "raised" THEN 1 ELSE 0)

\* C6: while a pack is built every metric fact processed so far has caused
\* exactly one fetch and every policy fact none (the fetch log is the list of
\* the processed metric facts' indicators, each once, in order), and after a
\* failed lookup that the resolver catches the fact just added is the fallback
\* fact, not the result of another fetch.
C6_OneFetchPerMetricFactNoRetry ==
    Selected =>
        /\ fetch_log = MetricIndicators(blueprints, Processed)
        /\ (lookup \in CaughtByResolve /\ pc = "loop") =>
              resolved[Len(resolved)].canada_fact
                 = FallbackPoints(blueprints[Len(resolved)])

C6_Witness ==
    /\ pc = "returned"
    /\ lookup = "TimeoutError"
    /\ Len(fetch_log) = 3
    /\ \E x \in DOMAIN blueprints : ~IsMetric(blueprints[x])


C18_ReturnsExactlyTargetCount ==
    Selected => Len(blueprints) = target_arg

\* C20: the day's focus always reaches the pack.  For every day of 1..366
\* the selection made with the day's focus holds at least one fact of one of
\* the three focus categories, and the facts taken in the focus-category pass
\* come before all others.
C20_FocusReachesPack ==
    (Selected /\ FromDailyFocus /\ day_of_year \in 1 .. 366) =>
        LET in_focus == { x \in DOMAIN blueprints :
                             blueprints[x].category \in Range(focus.categories) }
            taken    == after_category(day_of_year, focus.categories).selected
        IN  /\ in_focus # {}
            /\ SubSeq(blueprints, 1, Len(taken)) = taken

WordCap == 400

\* The cap loop with the first-paragraph truncation left out.
RECURSIVE cap_loop_whole_first(_, _, _, _)
cap_loop_whole_first(paragraphs, x, result, word_count) ==
    IF x > Len(paragraphs)
    THEN result
    ELSE LET n == paragraphs[x]
         IN  IF n = 0
             THEN cap_loop_whole_first(paragraphs, x + 1, result, word_count)
             ELSE IF word_count + n <= WordCap
             THEN cap_loop_whole_first(paragraphs, x + 1,
                      Append(result, [paragraph |-> x, words |-> n]),
                      word_count + n)
             ELSE IF word_count = 0
             THEN Append(result, [paragraph |-> x, words |-> n])
             ELSE result

\* The cap loop with "continue" where the code has its last "break".
RECURSIVE cap_loop_skips_ahead(_, _, _, _)
cap_loop_skips_ahead(paragraphs, x, result, word_count) ==
    IF x > Len(paragraphs)
    THEN result
    ELSE LET n == paragraphs[x]
         IN  IF n = 0
             THEN cap_loop_skips_ahead(paragraphs, x + 1, result, word_count)
             ELSE IF word_count + n <= WordCap
             THEN cap_loop_skips_ahead(paragraphs, x + 1,
                      Append(result, [paragraph |-> x, words |-> n]),
                      word_count + n)
             ELSE IF word_count = 0
             THEN Append(result, [paragraph |-> x, words |-> WordCap])
             ELSE cap_loop_skips_ahead(paragraphs, x + 1, result, word_count)

\* generate_reflection, lines 169-188: the loop over the paragraphs.
RECURSIVE cap_loop(_, _, _, _)
cap_loop(paragraphs, x, result, word_count) ==
    IF x > Len(paragraphs)
    THEN result
    ELSE LET n == paragraphs[x]
         IN  IF n = 0
             THEN cap_loop(paragraphs, x + 1, result, word_count)
             ELSE IF word_count + n <= WordCap
             THEN cap_loop(paragraphs, x + 1,
                      Append(result, [paragraph |-> x, words |-> n]),
                      word_count + n)
             ELSE IF word_count = 0
             THEN Append(result, [paragraph |-> x, words |-> WordCap])
             ELSE result

cap_reflection(paragraphs) == cap_loop(paragraphs, 1, <<>>, 0)

(***************************************************************************)
(* The environment variables each function reads, in the order it reads    *)
(* them, and the calls of main in their order.                             *)
(***************************************************************************)
\* generate_reflection with the deployment name not taken from the environment.
generate_reads_no_deployment == <<"AZURE_OPENAI_ENDPOINT", "AZURE_OPENAI_API_KEY">>

generate_reads ==
    <<"AZURE_OPENAI_ENDPOINT", "AZURE_OPENAI_API_KEY", "AZURE_OPENAI_DEPLOYMENT">>

send_email_reads ==
    <<"EMAIL_SMTP_SERVER", "EMAIL_SMTP_PORT", "ICLOUD_EMAIL", "ICLOUD_PASSWORD",
      "EMAIL_RECIPIENT">>

\* main with send_email called before generate_reflection.
main_calls_send_first == <<"load_prompt", "send_email", "generate_reflection">>

main_calls == <<"load_prompt", "generate_reflection", "send_email">>

RequiredEnv == Range(generate_reads) \cup Range(send_email_reads)

\* smtp_steps with the login made before starttls.
smtp_steps_login_first == <<"smtp_connect", "login", "starttls", "send_message">>

\* send_email, lines 229-233; set_debuglevel(0) sends nothing.
smtp_steps == <<"smtp_connect", "starttls", "login", "send_message">>

\* The reads a function makes before it stops: all of them, or those up to
\* and including the first one that fails.
RECURSIVE reads_made(_, _)
reads_made(reads, bad) ==
    IF reads = <<>>
    THEN <<>>
    ELSE IF Head(reads) \in bad
         THEN <<Head(reads)>>
         ELSE <<Head(reads)>> \o reads_made(Tail(reads), bad)

\* os.environ[...] raises KeyError; int(...) of the port raises ValueError.
read_error(reads, missing, invalid) ==
    LET made == reads_made(reads, missing \cup invalid)
        last == made[Len(made)]
    IN  IF made = <<>> THEN "none"
        ELSE IF last \in missing THEN "KeyError"
        ELSE IF last \in invalid THEN "ValueError"
        ELSE "none"

after_call == mpc + 1

\* _CATEGORIES, lines 79-103, each text by a short key.  The texts are those
\* of the fact bank's CATEGORIES except the tenth, which spells K-12 with
\* another dash.
MAILER_CATEGORIES ==
    << "legal_institutional", "currency_capital", "labour_mobility",
       "information_access", "infrastructure_time", "second_chances",
       "state_capacity", "language_geographic", "language_global",
       "education_k12", "healthcare", "political_stability",
       "banking_inclusion", "research_libraries", "labour_standards",
       "property_rights", "immigration", "press_freedom", "internal_mobility",
       "pension", "clean_water", "consumer_safety", "environment" >>

\* _COMPARISON_FOCUSES, lines 104-113.
COMPARISON_FOCUSES ==
    << "zimbabwe_low_trust", "japan_language_trap", "rigid_second_chances",
       "credentials_not_transferable", "visa_mobility_limits",
       "less_optionality", "low_predictability", "limited_information" >>

\* get_todays_focus, lines 118-133, for tm_yday = d: the two categories and
\* the comparison that the returned text names.
get_todays_focus(d) ==
    LET n_cat  == Len(MAILER_CATEGORIES)
        n_comp == Len(COMPARISON_FOCUSES)
        i      == d % n_cat
        j0     == (d + 7) % n_cat
        j      == IF i = j0 THEN (j0 + 1) % n_cat ELSE j0
    IN  [cat1 |-> MAILER_CATEGORIES[i + 1],
         cat2 |-> MAILER_CATEGORIES[j + 1],
         comp |-> COMPARISON_FOCUSES[(d % n_comp) + 1]]

\* load_prompt, lines 138-141: the text of prompt.txt, then today's focus.
load_prompt(d) == [base |-> "prompt.txt", focus |-> get_todays_focus(d)]

BankIdle ==
    /\ day_of_year = 0
    /\ focus = NoFocus
    /\ pc = "idle"
    /\ blueprints = <<>>
    /\ resolved = <<>>
    /\ lookup = "none"
    /\ fetch_log = <<>>
    /\ rendered = <<>>
    /\ net_log = <<>>
    /\ first_run = <<>>
    /\ target_arg = PackTarget
    /\ store = ModuleTables
    /\ rotate_arg = NoRotate

\* The days the mailer runs on: the first and the last of the year.
MailDays == {1, MaxDay}

WordChoices == {1, 199, 200, 201, 400, 401}

RECURSIVE SeqsUpTo(_, _)
SeqsUpTo(S, n) ==
    IF n = 0
    THEN { <<>> }
    ELSE LET shorter == SeqsUpTo(S, n - 1)
         IN  shorter \cup { Append(q, e) : q \in shorter, e \in S }

ModelOutputs == (SeqsUpTo(WordChoices, MaxParagraphs) \ { <<>> }) \cup { <<0>> }

\* The state once the module is imported: load_dotenv() has run (line 16).
MailInit ==
    /\ mpc = 1
    /\ env_missing \in { m \in SUBSET RequiredEnv : Cardinality(m) <= MaxMissing }
    /\ port_valid \in BOOLEAN
    /\ prompt_file \in BOOLEAN
    /\ trace = <<"load_dotenv">>
    /\ error = "none"
    /\ model_output = <<>>
    /\ reflection = <<>>
    /\ today \in MailDays
    /\ prompt = <<>>
    /\ BankIdle
    /\ FetchIdle
    /\ HtmlIdle

Calling(f) == error = "none" /\ mpc \in DOMAIN main_calls /\ main_calls[mpc] = f

Done == error = "none" /\ mpc = Len(main_calls) + 1

\* load_prompt: open prompt.txt, read it, append today's focus.
LoadPrompt ==
    /\ Calling("load_prompt")
    /\ IF prompt_file
       THEN /\ trace' = Append(trace, "build_prompt")
            /\ prompt' = load_prompt(today)
            /\ mpc' = after_call
            /\ error' = error
       ELSE /\ trace' = trace
            /\ prompt' = prompt
            /\ mpc' = mpc
            /\ error' = "FileNotFoundError"
    /\ UNCHANGED <<env_missing, port_valid, prompt_file, model_output, reflection>>
    /\ UNCHANGED today
    /\ UNCHANGED other_than_mail

\* generate_reflection: read the Azure settings, call the API once, cap the
\* answer.  The API call raises, returns no content (content is None, so
\* .strip() raises), or returns text.
GenerateReflection ==
    /\ Calling("generate_reflection")
    /\ LET made == reads_made(generate_reads, env_missing)
           err  == read_error(generate_reads, env_missing, {})
       IN  IF err # "none"
           THEN /\ trace' = trace \o made
                /\ mpc' = mpc
                /\ error' = err
                /\ UNCHANGED <<model_output, reflection>>
           ELSE \/ /\ trace' = trace \o made \o <<"api_call">>
                   /\ mpc' = mpc
                   /\ error' \in {"APIError", "AttributeError"}
                   /\ UNCHANGED <<model_output, reflection>>
                \/ \E answer \in ModelOutputs :
                      /\ trace' = trace \o made \o <<"api_call">>
                      /\ model_output' = answer
                      /\ reflection' = cap_reflection(answer)
                      /\ mpc' = after_call
                      /\ error' = error
    /\ UNCHANGED <<env_missing, port_valid, prompt_file, today, prompt>>
    /\ UNCHANGED other_than_mail

\* send_email: read the SMTP settings, render the HTML, then the SMTP steps
\* inside "with smtplib.SMTP(...) as server"; a step that raises ends the
\* function, and leaving the with block closes a connection that was opened.
SendEmail ==
    /\ Calling("send_email")
    /\ LET invalid == IF port_valid THEN {} ELSE {"EMAIL_SMTP_PORT"}
           made    == reads_made(send_email_reads, env_missing \cup invalid)
           err     == read_error(send_email_reads, env_missing, invalid)
       IN  IF err # "none"
           THEN /\ trace' = trace \o made
                /\ mpc' = mpc
                /\ error' = err
           ELSE \/ /\ trace' = trace \o made \o <<"format">> \o smtp_steps
                                  \o <<"close">>
                   /\ mpc' = after_call
                   /\ error' = error
                \/ \E k \in DOMAIN smtp_steps :
                      /\ trace' = trace \o made \o <<"format">>
                                     \o SubSeq(smtp_steps, 1, k - 1)
                                     \o <<"failed_" \o smtp_steps[k]>>
                                     \o (IF k > 1 THEN <<"close">> ELSE <<>>)
                      /\ mpc' = mpc
                      /\ error' = "SMTPException"
    /\ UNCHANGED <<env_missing, port_valid, prompt_file, model_output, reflection>>
    /\ UNCHANGED <<today, prompt>>
    /\ UNCHANGED other_than_mail

MailNext ==
    \/ LoadPrompt
    \/ GenerateReflection
    \/ SendEmail

SpecMailer == MailInit /\ [][MailNext]_vars

(***************************************************************************)
(* load_prompt alone, on every day of the year.                            *)
(***************************************************************************)
PromptDays == 1 .. MaxDay

PromptInit ==
    /\ mpc = 1
    /\ env_missing = {}
    /\ port_valid = TRUE
    /\ prompt_file \in BOOLEAN
    /\ trace = <<"load_dotenv">>
    /\ error = "none"
    /\ model_output = <<>>
    /\ reflection = <<>>
    /\ today \in PromptDays
    /\ prompt = <<>>
    /\ BankIdle
    /\ FetchIdle
    /\ HtmlIdle

PromptNext == LoadPrompt

SpecPrompt == PromptInit /\ [][PromptNext]_vars


(***************************************************************************)
(* Properties of the mailer                                                *)
(***************************************************************************)
Happened(e) == \E x \in DOMAIN trace : trace[x] = e

Times(e) == Cardinality({ x \in DOMAIN trace : trace[x] = e })

\* e happened, and before every occurrence of f.
Before(e, f) ==
    \E x \in DOMAIN trace :
        /\ trace[x] = e
        /\ \A y \in DOMAIN trace : trace[y] = f => x < y

IsPrefix(p, q) == Len(p) <= Len(q) /\ p = SubSeq(q, 1, Len(p))

FlowSteps == <<"build_prompt", "api_call", "format", "send_message">>

InFlow(e) == e \in Range(FlowSteps)

Flow == SelectSeq(trace, InFlow)

SmtpEvents ==
    Range(smtp_steps) \cup { "failed_" \o smtp_steps[k] : k \in DOMAIN smtp_steps }

\* C7: a run of main goes through build prompt, one API call, format, one
\* email, in this order; at most one email is sent, only after the API call
\* has returned a reflection; when prompt loading or the API call fails no
\* email is sent (and no SMTP step is taken).
C7_OneFlowAtMostOneEmail ==
    /\ IsPrefix(Flow, FlowSteps)
    /\ Times("api_call") <= 1
    /\ Times("send_message") <= 1
    /\ Happened("send_message") =>
          /\ Happened("api_call")
          /\ model_output # <<>>
          /\ reflection = cap_reflection(model_output)
    /\ error \in {"FileNotFoundError", "APIError", "AttributeError"} =>
          \A e \in SmtpEvents \cup {"format"} : ~Happened(e)
    /\ Done => Flow = FlowSteps

C7_Witness ==
    /\ Done
    /\ Happened("send_message")
    /\ Len(model_output) = 2

AzureEnv ==
    {"AZURE_OPENAI_ENDPOINT", "AZURE_OPENAI_API_KEY", "AZURE_OPENAI_DEPLOYMENT"}

SmtpEnv ==
    {"EMAIL_SMTP_SERVER", "EMAIL_SMTP_PORT", "ICLOUD_EMAIL", "ICLOUD_PASSWORD",
     "EMAIL_RECIPIENT"}

ConfigError == error \in {"KeyError", "ValueError"}

\* C8 (as claimed): every required environment variable is read before the
\* prompt is built and before the API is called, so a run that a missing or
\* invalid configuration value stops has made no external call.
C8_ConfigurationReadFirst ==
    /\ (Happened("build_prompt") \/ Happened("api_call")) =>
          \A v \in AzureEnv \cup SmtpEnv :
              Before(v, "build_prompt") /\ Before(v, "api_call")
    /\ ConfigError => ~Happened("api_call")

\* C8 (amended): load_dotenv runs first, but the variables are read where
\* they are used: none before the prompt is built; the three Azure variables
\* inside generate_reflection, all before the API call; the five SMTP
\* variables inside send_email, after the API call has returned and before
\* any SMTP step.  So a missing Azure variable stops the run before any
\* external call, and a missing or invalid SMTP variable stops it after the
\* API call and before any SMTP step.
C8_ConfigurationReadWhereUsed ==
    /\ trace[1] = "load_dotenv"
    /\ \A v \in AzureEnv \cup SmtpEnv :
          Happened(v) => Before("build_prompt", v)
    /\ Happened("api_call") => \A v \in AzureEnv : Before(v, "api_call")
    /\ \A v \in SmtpEnv : Happened(v) => Before("api_call", v)
    /\ \A e \in SmtpEvents :
          Happened(e) => \A v \in SmtpEnv : Before(v, e)
    /\ ConfigError =>
          /\ \A e \in SmtpEvents : ~Happened(e)
          /\ trace[Len(trace)] \in AzureEnv => ~Happened("api_call")
          /\ trace[Len(trace)] \in SmtpEnv => Happened("api_call")
          /\ trace[Len(trace)] \in AzureEnv \cup SmtpEnv

C8_Witness ==
    /\ error = "KeyError"
    /\ Happened("api_call")
    /\ trace[Len(trace)] = "EMAIL_RECIPIENT"
    /\ reflection # <<>>

RECURSIVE WordsIn(_)
WordsIn(result) ==
    IF result = <<>> THEN 0 ELSE Head(result).words + WordsIn(Tail(result))

\* C9: the reflection generate_reflection returns has at most 400 words in
\* total, whatever paragraphs the model's answer has.
C9_AtMost400Words == WordsIn(reflection) <= 400

C9_Witness ==
    /\ model_output = <<401, 1>>
    /\ reflection = << [paragraph |-> 1, words |-> 400] >>

NonEmpty == SelectSeq([x \in DOMAIN model_output |-> x],
                      LAMBDA x : model_output[x] > 0)

WholePrefix(k) ==
    [x \in 1 .. k |-> [paragraph |-> NonEmpty[x],
                       words |-> model_output[NonEmpty[x]]]]

\* C10: the reflection is the longest prefix of the answer's non-empty
\* paragraphs, each whole and in order, whose words total at most 400 (it
\* stops at the first paragraph that does not fit), except that when the first
\* non-empty paragraph alone has more than 400 words the reflection is that
\* paragraph's first 400 words.
C10_LongestPrefixOfWholeParagraphs ==
    model_output # <<>> =>
        IF NonEmpty # <<>> /\ model_output[NonEmpty[1]] > 400
        THEN reflection = << [paragraph |-> NonEmpty[1], words |-> 400] >>
        ELSE \E k \in 0 .. Len(NonEmpty) :
                /\ reflection = WholePrefix(k)
                /\ WordsIn(WholePrefix(k)) <= 400
                /\ k < Len(NonEmpty) => WordsIn(WholePrefix(k + 1)) > 400

C10_Witness ==
    /\ model_output = <<200, 201, 1>>
    /\ reflection = << [paragraph |-> 1, words |-> 200] >>

C13_EachDayHasItsOwnFocus ==
    prompt # <<>> =>
        /\ prompt.focus.cat1 # prompt.focus.cat2
        /\ prompt.focus.cat1 = MAILER_CATEGORIES[(today % 23) + 1]
        /\ prompt.focus.cat2 = MAILER_CATEGORIES[((today + 7) % 23) + 1]
        /\ prompt.focus.comp = COMPARISON_FOCUSES[(today % 8) + 1]
        /\ \A d \in 1 .. 366 :
              d # today => get_todays_focus(d) # prompt.focus


(***************************************************************************)
(* baseline_mailer.py: the HTML rendering of a reflection.  A text is a    *)
(* sequence of symbols: "*" is an asterisk, "#" the four characters of the *)
(* prefix "### ", "K" one of the key labels of line 30 (Advantage, Clear   *)
(* Advantage, ...), "a" a letter, "<", ">" and "&" themselves, "nl" a line *)
(* break.  No symbol is a space, so strip() removes line breaks only,      *)
(* except that it cuts the blank off a "### " that ends its line.  The     *)
(* output is a sequence of the same symbols and of "&amp;", "&lt;",        *)
(* "&gt;" and the tags "<h3>", "</h3>", "<p>", "</p>", "<strong>",         *)
(* "</strong>", "<br>", each tag standing for the tag with its style.      *)
(***************************************************************************)
MaxTextLen == 5

Alphabet == {"*", "#", "K", "a", "<", ">", "&", "nl"}

\* The symbols that \b of line 30 counts as word characters.
WordSymbols == {"K", "a"}

Bold == <<"*", "*">>

startswith(s, prefix) ==
    Len(s) >= Len(prefix) /\ SubSeq(s, 1, Len(prefix)) = prefix

endswith(s, suffix) ==
    Len(s) >= Len(suffix) /\ SubSeq(s, Len(s) - Len(suffix) + 1, Len(s)) = suffix

\* str.count: occurrences that do not overlap, from the left.
RECURSIVE count(_, _)
count(s, sub) ==
    IF Len(s) < Len(sub) THEN 0
    ELSE IF startswith(s, sub)
         THEN 1 + count(SubSeq(s, Len(sub) + 1, Len(s)), sub)
         ELSE count(Tail(s), sub)

\* str.replace of one symbol.
replace(s, old, new) == [x \in DOMAIN s |-> IF s[x] = old THEN new ELSE s[x]]

\* str.strip.
RECURSIVE strip(_)
strip(s) ==
    IF s = <<>> THEN s
    ELSE IF Head(s) = "nl" THEN strip(Tail(s))
    ELSE IF s[Len(s)] = "nl" THEN strip(SubSeq(s, 1, Len(s) - 1))
    ELSE s

\* str.split on one symbol.
RECURSIVE split(_, _, _)
split(s, sep, cur) ==
    IF s = <<>> THEN <<cur>>
    ELSE IF Head(s) = sep THEN <<cur>> \o split(Tail(s), sep, <<>>)
    ELSE split(Tail(s), sep, Append(cur, Head(s)))

\* str.join.
RECURSIVE join(_, _)
join(parts, sep) ==
    IF parts = <<>> THEN <<>>
    ELSE IF Len(parts) = 1 THEN parts[1]
    ELSE parts[1] \o <<sep>> \o join(Tail(parts), sep)

\* _is_heading_line, lines 19-32.
is_heading_line(ln) ==
    LET line == strip(ln)
    IN  IF line = <<>> THEN FALSE
        ELSE IF Head(line) = "#" /\ Len(line) >= 2 THEN TRUE
        ELSE IF startswith(line, Bold) /\ endswith(line, Bold)
                /\ count(line, Bold) = 2 THEN TRUE
        ELSE IF startswith(line, Bold \o <<"K">>)
                /\ (Len(line) = 3 \/ line[4] \notin WordSymbols) THEN TRUE
        ELSE FALSE

\* An escape that leaves "<" as it is.
escape_not_lt(s) == replace(replace(s, "&", "&amp;"), ">", "&gt;")

\* The three replace calls of lines 42, 65 and 71.
escape(s) == replace(replace(replace(s, "&", "&amp;"), "<", "&lt;"), ">", "&gt;")

\* _heading_line_to_html, lines 37-41: the text of the heading.  The pattern
\* ^\*\*(.+)\*\*$ matches a line that starts and ends with "**" around at
\* least one character.
heading_content(line) ==
    LET raw == strip(line)
    IN  IF Head(raw) = "#" /\ Len(raw) >= 2
        THEN Tail(raw)
        ELSE IF startswith(raw, Bold) /\ endswith(raw, Bold) /\ Len(raw) >= 5
             THEN SubSeq(raw, 3, Len(raw) - 2)
             ELSE raw

heading_line_to_html(line) ==
    <<"<h3>">> \o escape(heading_content(line)) \o <<"</h3>">>

\* re.sub(r'\*\*(.+?)\*\*', r'<strong>\1</strong>', s): from the left, a
\* "**" and the nearest later "**" with at least one character and no line
\* break between them.
RECURSIVE strong(_)
strong(s) ==
    IF s = <<>> THEN <<>>
    ELSE LET closes == { j \in 4 .. Len(s) - 1 :
                            /\ s[j] = "*" /\ s[j + 1] = "*"
                            /\ \A x \in 3 .. j - 1 : s[x] # "nl" }
             first == CHOOSE j \in closes : \A k \in closes : j <= k
         IN  IF startswith(s, Bold) /\ closes # {}
             THEN <<"<strong>">> \o SubSeq(s, 3, first - 1) \o <<"</strong>">>
                     \o strong(SubSeq(s, first + 2, Len(s)))
             ELSE <<Head(s)>> \o strong(Tail(s))

\* Lines 65-68 and 71-74.
paragraph(s) ==
    <<"<p>">> \o replace(strong(escape(s)), "nl", "<br>") \o <<"</p>">>

\* re.split(r'\n\s*\n', reflection): a run of two or more line breaks ends
\* a block.
RECURSIVE split_blocks(_, _)
split_blocks(s, cur) ==
    IF s = <<>> THEN <<cur>>
    ELSE IF startswith(s, <<"nl", "nl">>)
         THEN LET run == CHOOSE n \in 2 .. Len(s) :
                            /\ \A x \in 1 .. n : s[x] = "nl"
                            /\ n < Len(s) => s[n + 1] # "nl"
              IN  <<cur>> \o split_blocks(SubSeq(s, run + 1, Len(s)), <<>>)
         ELSE split_blocks(Tail(s), Append(cur, Head(s)))

\* Line 57.
lines_of(block) == SelectSeq(split(block, "nl", <<>>), LAMBDA ln : strip(ln) # <<>>)

\* The body of the loop, lines 54-74: the parts one block adds to html_parts.
block_parts(b) ==
    LET block == strip(b)
        lines == lines_of(block)
        rest  == join(Tail(lines), "nl")
    IN  IF block = <<>> \/ lines = <<>> THEN <<>>
        ELSE IF is_heading_line(lines[1])
             THEN <<heading_line_to_html(lines[1])>>
                     \o (IF rest # <<>> THEN <<paragraph(rest)>> ELSE <<>>)
             ELSE <<paragraph(block)>>

RECURSIVE html_parts(_)
html_parts(blocks) ==
    IF blocks = <<>> THEN <<>>
    ELSE block_parts(Head(blocks)) \o html_parts(Tail(blocks))

reflection_to_html(r) ==
    join(html_parts(split_blocks(r, <<>>)), "nl")

Texts == SeqsUpTo(Alphabet, MaxTextLen)

HtmlInit ==
    /\ text \in Texts
    /\ html = <<>>
    /\ BankIdle
    /\ MailIdle
    /\ FetchIdle

RenderHtml ==
    /\ html' = reflection_to_html(text)
    /\ UNCHANGED text
    /\ UNCHANGED <<bank_vars, mail_vars, fetch_vars>>

HtmlNext == RenderHtml

SpecHtml == HtmlInit /\ [][HtmlNext]_vars

(***************************************************************************)
(* Properties of the HTML rendering                                        *)
(***************************************************************************)
Rendered == html # <<>>

OneLine == text # <<>> /\ \A x \in DOMAIN text : text[x] # "nl"

\* A line without its "**" markers.
RECURSIVE WithoutMarkers(_)
WithoutMarkers(s) ==
    IF s = <<>> THEN <<>>
    ELSE IF startswith(s, Bold) THEN WithoutMarkers(Tail(Tail(s)))
    ELSE <<Head(s)>> \o WithoutMarkers(Tail(s))

Stripped(line) ==
    IF Head(line) = "#" THEN Tail(line) ELSE WithoutMarkers(line)

Entity(c) ==
    IF c = "&" THEN "&amp;" ELSE IF c = "<" THEN "&lt;"
    ELSE IF c = ">" THEN "&gt;" ELSE c

\* C12: every line that _is_heading_line accepts is rendered as one <h3>
\* element whose text is the line without its "### " prefix or without its
\* "**" markers.
C12_HeadingRenderedWithMarkersStripped ==
    (Rendered /\ OneLine /\ is_heading_line(text)) =>
        html = <<"<h3>">> \o [x \in DOMAIN Stripped(text) |->
                                 Entity(Stripped(text)[x])] \o <<"</h3>">>

Occurrences(s, c) == Cardinality({ x \in DOMAIN s : s[x] = c })

OutputSymbols ==
    (Alphabet \ {"&", "<", ">"})
        \cup {"&amp;", "&lt;", "&gt;"}
        \cup {"<h3>", "</h3>", "<p>", "</p>", "<strong>", "</strong>", "<br>"}

\* The block-level elements the blocks of the text call for, in order.
RECURSIVE ElementsFor(_)
ElementsFor(blocks) ==
    IF blocks = <<>> THEN <<>>
    ELSE LET lines == lines_of(strip(Head(blocks)))
         IN  (IF lines = <<>> THEN <<>>
              ELSE IF ~is_heading_line(lines[1]) THEN <<"<p>">>
              ELSE IF Len(lines) = 1 THEN <<"<h3>">>
              ELSE <<"<h3>", "<p>">>)
             \o ElementsFor(Tail(blocks))

\* C17: reflection_to_html escapes all model text.  Every "&", "<" and ">"
\* of the input is in the output as "&amp;", "&lt;" or "&gt;" and never as
\* itself, the output holds nothing but text and the renderer's own h3, p,
\* strong and br tags, and its block elements are one <p> for each non-empty
\* plain block and one <h3>, then one <p> if lines follow, for each block
\* whose first line is a heading, in the order of the blocks.
C17_AllModelTextEscaped ==
    Rendered =>
        /\ \A x \in DOMAIN html : html[x] \in OutputSymbols
        /\ Occurrences(html, "&amp;") = Occurrences(text, "&")
        /\ Occurrences(html, "&lt;") = Occurrences(text, "<")
        /\ Occurrences(html, "&gt;") = Occurrences(text, ">")
        /\ SelectSeq(html, LAMBDA e : e \in {"<h3>", "<p>"})
              = ElementsFor(split_blocks(text, <<>>))
        /\ SelectSeq(html, LAMBDA e : e \in {"</h3>", "</p>"})
              = [x \in DOMAIN ElementsFor(split_blocks(text, <<>>)) |->
                    IF ElementsFor(split_blocks(text, <<>>))[x] = "<h3>"
                    THEN "</h3>" ELSE "</p>"]

C17_Witness ==
    /\ text = <<"#", "<", "nl", "&", ">">>
    /\ html = <<"<h3>", "&lt;", "</h3>", "nl", "<p>", "&amp;", "&gt;", "</p>">>


(***************************************************************************)
(* One World Bank lookup on its own: _fetch_world_bank_latest and          *)
(* _resolve_metric_fact on one response, for the first metric fact (Canada *)
(* against the US).  The rows of a response are any sequence of up to      *)
(* MaxRows rows, for a requested or another country, of either year, with  *)
(* or without a value.                                                     *)
(***************************************************************************)
MaxRows == 3

FetchTemplate == METRIC_FACTS[1]

FetchCountries == <<"CA", FetchTemplate.comparison_country>>

\* The years of the rows, the earlier first.
FetchDates == <<"2024", "2025">>

FetchRows ==
    { Row(code, FetchDates[d], value) :
         code \in {"CA", "US", "MX"}, d \in DOMAIN FetchDates,
         value \in {<<>>, <<5>>} }

FetchResponses ==
    FailingResponses(FetchTemplate)
        \cup { Payload(JList(<<JDict, JList(rows)>>)) :
                  rows \in SeqsUpTo(FetchRows, MaxRows) }

FetchInit ==
    /\ http_response \in FetchResponses
    /\ fetch_result = <<>>
    /\ metric_result = <<>>
    /\ BankIdle
    /\ MailIdle
    /\ HtmlIdle

FetchLatest ==
    /\ fetch_result = <<>>
    /\ fetch_result' = fetch_world_bank_latest(http_response, FetchCountries)
    /\ UNCHANGED <<http_response, metric_result>>
    /\ UNCHANGED <<bank_vars, mail_vars, html_vars>>

ResolveOne ==
    /\ metric_result = <<>>
    /\ metric_result' = resolve_metric_fact(FetchTemplate, http_response)
    /\ UNCHANGED <<http_response, fetch_result>>
    /\ UNCHANGED <<bank_vars, mail_vars, html_vars>>

FetchNext ==
    \/ FetchLatest
    \/ ResolveOne

SpecFetch == FetchInit /\ [][FetchNext]_vars

(***************************************************************************)
(* Properties of one lookup                                                *)
(***************************************************************************)
GoodShape ==
    /\ http_response.kind = "payload"
    /\ http_response.payload.t = "list"
    /\ Len(http_response.payload.v) >= 2
    /\ http_response.payload.v[2].t = "list"

BadShape == http_response.kind = "payload" /\ ~GoodShape

ResponseRows == IF GoodShape THEN http_response.payload.v[2].v ELSE <<>>

WellFormed ==
    /\ GoodShape
    /\ \A x \in DOMAIN ResponseRows :
          ResponseRows[x].t = "dict" /\ ResponseRows[x].country.t = "dict"

\* The rows of a well-formed response that carry a value for a country.
ValueRows(code) ==
    { x \in DOMAIN ResponseRows :
         ResponseRows[x].country.id = code /\ ResponseRows[x].value # <<>> }

PointOf(x) == <<ResponseRows[x].date, ResponseRows[x].value[1]>>

\* C14: _fetch_world_bank_latest never returns a partial result.  When it
\* returns, the map has an entry for each requested country and for no
\* other; on a well-formed response in which a requested country has no row
\* with a value it raises ValueError; and on a response that is not a list
\* of at least two elements with a list as the second it raises ValueError.
C14_NeverPartialResult ==
    fetch_result # <<>> =>
        /\ fetch_result.ok => DOMAIN fetch_result.value = {"CA", "US"}
        /\ (WellFormed /\ \E c \in {"CA", "US"} : ValueRows(c) = {}) =>
              fetch_result = [ok |-> FALSE, exc |-> "ValueError"]
        /\ BadShape => fetch_result = [ok |-> FALSE, exc |-> "ValueError"]

C14_Witness ==
    /\ WellFormed
    /\ Len(ResponseRows) = 3
    /\ ValueRows("CA") # {}
    /\ ValueRows("MX") # {}
    /\ ValueRows("US") = {}
    /\ fetch_result = [ok |-> FALSE, exc |-> "ValueError"]

DateIndex(date) == CHOOSE d \in DOMAIN FetchDates : FetchDates[d] = date

\* C15: the (year, value) returned for a requested country is that of the
\* row with the most recent year among the country's rows with a value.
C15_ReturnsMostRecentValue ==
    (WellFormed /\ fetch_result # <<>> /\ fetch_result.ok) =>
        \A c \in DOMAIN fetch_result.value :
            \E x \in ValueRows(c) :
                /\ fetch_result.value[c] = PointOf(x)
                /\ \A y \in ValueRows(c) :
                      DateIndex(ResponseRows[y].date) <= DateIndex(ResponseRows[x].date)

\* C19: a resolved metric fact never mixes origins.  The Canada value and
\* the comparison value are both points of the response, or they are both
\* the template's fallback points.
C19_NeverMixesOrigins ==
    (metric_result # <<>> /\ metric_result.ok) =>
        LET points == metric_result.value.canada_fact
        IN  \/ /\ WellFormed
               /\ \E x \in ValueRows("CA") : points.canada = PointOf(x)
               /\ \E x \in ValueRows("US") : points.versus = PointOf(x)
            \/ /\ points.canada = <<"2023", 816>>
               /\ points.versus = <<"2023", 784>>

C19_Witness ==
    /\ WellFormed
    /\ ValueRows("CA") # {}
    /\ ValueRows("US") = {}
    /\ metric_result # <<>>
    /\ metric_result.ok
    /\ metric_result.value.canada_fact.canada = <<"2023", 816>>
    /\ metric_result.value.canada_fact.versus = <<"2023", 784>>

=============================================================================
